---- MODULE Spec2Model ----
(***************************************************************************)
(* Model of the frame and feature stages of 03a-chalearn/chalearn.py:      *)
(* video2frames (lines 35-87) and frames2features (lines 90-147), acting   *)
(* on a file system holding the video tree, the frame tree and the feature *)
(* tree.  The external tools (mediainfo, ffmpeg, the ConvNet) are          *)
(* nondeterministic in what they return; glob returns its matches in an    *)
(* arbitrary order.                                                        *)
(*                                                                         *)
(* Paths below a stage directory are triples <<split, label, name>>.  A    *)
(* label is the sequence of its characters (digits), a file name is the    *)
(* sequence of its dot-separated components, a frame file frame-ddd.jpg is *)
(* the digit sequence ddd.                                                 *)
(***************************************************************************)
EXTENDS Integers, Sequences, FiniteSets, TLC

\* ---- bounds of the model ----
MaxVideos == 2          \* videos in the video tree
MaxCalls == 3           \* calls of video2frames / frames2features in a run
NFramesNorm == 2        \* the nFramesNorm argument handed to both stages

Splits == {"train", "val"}
Labels == {<<1, 0>>, <<2>>, <<9>>}                  \* "10", "2", "9"
VideoFiles == {<<"a", "avi">>, <<"a", "x", "avi">>} \* a.avi, a.x.avi
VideoUniverse == Splits \X Labels \X VideoFiles
\* nClasses: <<>> is None, <<n>> is the integer n
ClassArgs == {<<>>} \cup {<<n>> : n \in 0..Cardinality(Labels)}
\* what mediainfo prints for %Duration%: "", "0", "1500"
Durations == {<<>>, <<0>>, <<1, 5, 0, 0>>}

VARIABLES
    videos,     \* files sVideoDir/split/label/name.avi
    frames,     \* frame tree: video directory -> set of its .jpg files
    featDirs,   \* feature tree: directories sFeatureDir/split/label
    features,   \* feature tree: .npy file -> saved array (sequence of rows)
    cwd,        \* working directory of the process
    pc,         \* "idle", or the function whose loop is running
    lastFn,     \* the function called last
    nClasses,   \* its nClasses argument
    dfVideos,   \* its dfVideos after the class restriction
    todo,       \* rows of dfVideos the loop has not reached yet
    nCounter,   \* its nCounter
    result,     \* how the last call ended: [exc, line]
    effects,    \* tool / library calls made by the last call
    fsAtCall,   \* file system and working directory when it was called
    nCalls      \* number of calls so far

vars == <<videos, frames, featDirs, features, cwd, pc, lastFn, nClasses,
          dfVideos, todo, nCounter, result, effects, fsAtCall, nCalls>>

\* ---- strings, sorting, slicing ----

Min(a, b) == IF a < b THEN a ELSE b

\* s < t for Python strings (sequences of characters compared by code point)
LexLess(s, t) ==
    \E i \in 1..(Min(Len(s), Len(t)) + 1) :
        /\ \A j \in 1..(i - 1) : s[j] = t[j]
        /\ \/ i > Len(s) /\ i <= Len(t)
           \/ i <= Len(s) /\ i <= Len(t) /\ s[i] < t[i]

\* a sort that yields descending order
RECURSIVE sorted_descending(_)
sorted_descending(S) ==
    IF S = {} THEN <<>>
    ELSE LET m == CHOOSE x \in S : \A y \in S : y = x \/ LexLess(y, x)
         IN  <<m>> \o sorted_descending(S \ {m})

\* sorted(S) for a set of distinct strings
RECURSIVE sorted(_)
sorted(S) ==
    IF S = {} THEN <<>>
    ELSE LET m == CHOOSE x \in S : \A y \in S : y = x \/ LexLess(x, y)
         IN  <<m>> \o sorted(S \ {m})

\* li[:n] for n >= 0
Take(li, n) == SubSeq(li, 1, Min(n, Len(li)))

Range(f) == {f[i] : i \in DOMAIN f}

\* int(s) of a digit string; <<>> stands for the ValueError of int("")
RECURSIVE ParseInt(_)
ParseInt(s) ==
    IF Len(s) = 1 THEN s[1]
    ELSE 10 * ParseInt(SubSeq(s, 1, Len(s) - 1)) + s[Len(s)]

\* "frame-%03d.jpg" % i
FrameName(i) == <<i \div 100, (i \div 10) % 10, i % 10>>

\* ---- file system ----

FS == [frames |-> frames, featDirs |-> featDirs, features |-> features, cwd |-> cwd]

\* a guard that never finds the frame directory
FrameDirExists_never(fr) == FALSE

\* os.path.exists(sFrameDir): sFrameDir is only ever made by makedirs(sDir)
FrameDirExists(fr) == DOMAIN fr # {}

\* a guard that never finds the feature directory
FeatureDirExists_never(fd) == FALSE

\* os.path.exists(sFeatureDir): only ever made by makedirs(dirname(sFeaturePath))
FeatureDirExists(fd) == fd # {}

\* s.split("/")[-2]
sLabel(path) == path[2]

\* a class restriction that orders the labels as numbers, not as strings
RestrictClasses_numeric(paths, nC) ==
    IF nC = <<>> THEN paths
    ELSE {p \in paths :
            Cardinality({q \in {sLabel(r) : r \in paths} :
                            ParseInt(q) < ParseInt(sLabel(p))}) < nC[1]}

\* the class restriction of dfVideos
RestrictClasses(paths, nC) ==
    IF nC = <<>> THEN paths
    ELSE LET liClasses == Take(sorted({sLabel(p) : p \in paths}), nC[1])
         IN  {p \in paths : sLabel(p) \in Range(liClasses)}

\* sFrameDir/split/label/sVideoName of a video
sDir(sVideoPath) == <<sVideoPath[1], sVideoPath[2], <<sVideoPath[3][1]>>>>

\* os.path.join(sFeatureDir, seVideo.sFrameDir + ".npy")
sFeaturePath(sFrameRel) == <<sFrameRel[1], sFrameRel[2], Append(sFrameRel[3], "npy")>>

\* os.path.dirname(sFeaturePath)
dirname(path) == <<path[1], path[2]>>

Effect(op, dir, file) == [op |-> op, dir |-> dir, file |-> file]

Raise(exc, line) == [exc |-> exc, line |-> line]
Returned(line) == [exc |-> "none", line |-> line]

Init ==
    /\ videos \in {S \in SUBSET VideoUniverse : Cardinality(S) <= MaxVideos}
    /\ frames = <<>>
    /\ featDirs = {}
    /\ features = <<>>
    /\ cwd = "start"
    /\ pc = "idle"
    /\ lastFn = "none"
    /\ nClasses = <<>>
    /\ dfVideos = {}
    /\ todo = {}
    /\ nCounter = 0
    /\ result = Returned(0)
    /\ effects = {}
    /\ fsAtCall = FS
    /\ nCalls = 0

\* ---- video2frames ----

\* lines 35-53: the guard, the glob and the class restriction
video2frames_call ==
    /\ pc = "idle"
    /\ nCalls < MaxCalls
    /\ nCalls' = nCalls + 1
    /\ lastFn' = "video2frames"
    /\ fsAtCall' = FS
    /\ effects' = {}
    /\ nCounter' = 0
    /\ \E nC \in ClassArgs :
        /\ nClasses' = nC
        /\ IF FrameDirExists(frames)
           THEN /\ result' = Raise("ValueError", 39)
                /\ dfVideos' = {}
                /\ todo' = {}
                /\ pc' = "idle"
           ELSE /\ result' = Returned(0)
                /\ dfVideos' = RestrictClasses(videos, nC)
                /\ todo' = dfVideos'
                /\ pc' = "video2frames"
    /\ UNCHANGED <<videos, frames, featDirs, features, cwd>>

\* a check that only rejects too many frames
FrameCountOK_atmost(nFrames, nNorm) == nFrames <= nNorm

\* line 80: the check of the number of frames found
FrameCountOK(nFrames, nNorm) == nFrames = nNorm

\* lines 55-81: one pass of the loop, for the next row of dfVideos
video2frames_loop ==
    /\ pc = "video2frames"
    /\ \E sVideoPath \in todo, sDuration \in Durations, nWritten \in 0..NFramesNorm :
        LET d == sDir(sVideoPath)
            old == IF d \in DOMAIN frames THEN frames[d] ELSE {}
            made == (d :> old) @@ frames                        \* line 64
            written == {FrameName(i) : i \in 1..nWritten}       \* lines 73-74
            after == (d :> (old \cup written)) @@ frames
            info == Effect("mediainfo", sVideoPath, <<>>)
            ffmpeg == Effect("ffmpeg", sVideoPath, <<>>)
        IN
        /\ todo' = todo \ {sVideoPath}
        /\ IF sDuration = <<>>
           THEN \* line 67: int("") raises
                /\ nWritten = 0
                /\ frames' = made
                /\ effects' = effects \cup {info}
                /\ result' = Raise("ValueError", 67)
                /\ pc' = "idle"
                /\ UNCHANGED nCounter
           ELSE IF ParseInt(sDuration) = 0
           THEN \* line 69: division by fVideoSec = 0.0
                /\ nWritten = 0
                /\ frames' = made
                /\ effects' = effects \cup {info}
                /\ result' = Raise("ZeroDivisionError", 69)
                /\ pc' = "idle"
                /\ UNCHANGED nCounter
           ELSE /\ frames' = after
                /\ effects' = effects \cup {info, ffmpeg}
                /\ IF FrameCountOK(Cardinality(after[d]), NFramesNorm)
                   THEN /\ nCounter' = nCounter + 1
                        /\ UNCHANGED <<result, pc>>
                   ELSE /\ result' = Raise("ValueError", 80)
                        /\ pc' = "idle"
                        /\ UNCHANGED nCounter
    /\ UNCHANGED <<videos, featDirs, features, cwd, lastFn, nClasses, dfVideos,
                   fsAtCall, nCalls>>

\* lines 83-87
video2frames_return ==
    /\ pc = "video2frames"
    /\ todo = {}
    /\ result' = Returned(87)
    /\ pc' = "idle"
    /\ UNCHANGED <<videos, frames, featDirs, features, cwd, lastFn, nClasses,
                   dfVideos, todo, nCounter, effects, fsAtCall, nCalls>>

\* ---- frames2features ----

\* lines 90-112: the guard, the listing of the frame tree, the class restriction
frames2features_call ==
    /\ pc = "idle"
    /\ nCalls < MaxCalls
    /\ nCalls' = nCalls + 1
    /\ lastFn' = "frames2features"
    /\ fsAtCall' = FS
    /\ nCounter' = 0
    /\ \E nC \in ClassArgs :
        /\ nClasses' = nC
        /\ IF FeatureDirExists(featDirs)
           THEN /\ result' = Raise("ValueError", 94)
                /\ effects' = {}
                /\ dfVideos' = {}
                /\ todo' = {}
                /\ pc' = "idle"
           ELSE IF ~FrameDirExists(frames)
           THEN \* line 98: os.chdir of a missing directory
                /\ result' = Raise("FileNotFoundError", 98)
                /\ effects' = {}
                /\ dfVideos' = {}
                /\ todo' = {}
                /\ pc' = "idle"
           ELSE /\ result' = Returned(0)
                /\ effects' = {Effect("chdir", <<>>, <<>>)}
                /\ dfVideos' = RestrictClasses(DOMAIN frames, nC)
                /\ todo' = dfVideos'
                /\ pc' = "frames2features"
    \* line 100 changes back to sCurrentDir
    /\ cwd' = cwd
    /\ UNCHANGED <<videos, frames, featDirs, features>>

\* line 142: arFeatures.reshape(nFramesNorm, -1) keeps the rows
reshape(arFeatures, n) == [i \in 1..n |-> arFeatures[i]]

\* lines 130-139: one row of features per frame, in the order given
predict(sFrames) == [i \in 1..Len(sFrames) |-> <<"features", sFrames[i]>>]

\* lines 113-146: one pass of the loop, for the next row of dfVideos
frames2features_loop ==
    /\ pc = "frames2features"
    /\ \E sFrameRel \in todo :
        LET path == sFeaturePath(sFrameRel)
            sFrames == sorted(frames[sFrameRel])                \* line 124
            loads == {Effect("load_img", sFrameRel, f) : f \in frames[sFrameRel]}
        IN
        /\ todo' = todo \ {sFrameRel}
        /\ IF path \in DOMAIN features
           THEN \* lines 117-120
                UNCHANGED <<featDirs, features, effects, result, pc, nCounter>>
           ELSE /\ featDirs' = featDirs \cup {dirname(path)}    \* line 121
                /\ IF Len(sFrames) # NFramesNorm
                   THEN \* line 126
                        /\ result' = Raise("AssertionError", 126)
                        /\ pc' = "idle"
                        /\ UNCHANGED <<features, effects, nCounter>>
                   ELSE /\ features' =
                              (path :> reshape(predict(sFrames), NFramesNorm)) @@ features
                        /\ effects' = effects \cup loads
                                        \cup {Effect("predict", sFrameRel, <<>>)}
                        /\ nCounter' = nCounter + 1
                        /\ UNCHANGED <<result, pc>>
    /\ UNCHANGED <<videos, frames, cwd, lastFn, nClasses, dfVideos, fsAtCall, nCalls>>

\* line 147
frames2features_return ==
    /\ pc = "frames2features"
    /\ todo = {}
    /\ result' = Returned(147)
    /\ pc' = "idle"
    /\ UNCHANGED <<videos, frames, featDirs, features, cwd, lastFn, nClasses,
                   dfVideos, todo, nCounter, effects, fsAtCall, nCalls>>

Next ==
    \/ video2frames_call
    \/ video2frames_loop
    \/ video2frames_return
    \/ frames2features_call
    \/ frames2features_loop
    \/ frames2features_return

Spec == Init /\ [][Next]_vars

\* ---- properties ----

FrameCount(fr, d) == IF d \in DOMAIN fr THEN Cardinality(fr[d]) ELSE 0 - 1

\* the videos of the first n labels, in ascending string order of the labels
FirstClasses(paths, nC) ==
    IF nC = <<>> THEN paths
    ELSE {p \in paths :
            Cardinality({l \in {q[2] : q \in paths} : LexLess(l, p[2])}) < nC[1]}

NpyOf(d) == <<d[1], d[2], d[3] \o <<"npy">>>>

\* C1: frames2features is resumable: called with a feature directory that
\* already holds the feature files of some videos, it skips those videos,
\* leaves their files unchanged, and extracts and saves the features of
\* every remaining selected video.
C1_Resumable ==
    ( /\ lastFn = "frames2features"
      /\ pc = "idle"
      /\ DOMAIN fsAtCall.features # {}
      /\ \A d \in FirstClasses(DOMAIN frames, nClasses) :
            FrameCount(frames, d) = NFramesNorm )
    => /\ result = Returned(147)
       /\ \A p \in DOMAIN fsAtCall.features :
            p \in DOMAIN features /\ features[p] = fsAtCall.features[p]
       /\ \A d \in FirstClasses(DOMAIN frames, nClasses) :
            NpyOf(d) \in DOMAIN features

\* C2: called with an existing frame directory, video2frames raises
\* ValueError (line 39) without entering its loop, without calling mediainfo
\* or ffmpeg, and with the file system left exactly as it was.
C2_FrameDirNotOverwritten ==
    (lastFn = "video2frames" /\ DOMAIN fsAtCall.frames # {})
    => /\ pc = "idle"
       /\ result = Raise("ValueError", 39)
       /\ effects = {}
       /\ FS = fsAtCall

C2_Witness ==
    /\ lastFn = "video2frames"
    /\ DOMAIN fsAtCall.frames # {}
    /\ result = Raise("ValueError", 39)

\* C3: called with an existing feature directory, frames2features raises
\* ValueError (line 94) without changing the working directory, loading a
\* frame, running the network or writing a feature file; file system and
\* working directory are left exactly as they were.
C3_FeatureDirNotOverwritten ==
    (lastFn = "frames2features" /\ fsAtCall.featDirs # {})
    => /\ pc = "idle"
       /\ result = Raise("ValueError", 94)
       /\ effects = {}
       /\ FS = fsAtCall

C3_Witness ==
    /\ lastFn = "frames2features"
    /\ DOMAIN fsAtCall.features # {}
    /\ result = Raise("ValueError", 94)

\* C4: every video the loop of video2frames has passed, and so every
\* selected video when video2frames returns normally, has exactly nFramesNorm
\* frames in its frame directory; a video with another number of frames makes
\* video2frames raise ValueError (line 80) there, with no later video touched.
C4_FrameShape ==
    lastFn = "video2frames" =>
        /\ (pc = "video2frames" \/ result = Returned(87)) =>
              \A v \in dfVideos \ todo : FrameCount(frames, sDir(v)) = NFramesNorm
        /\ result = Returned(87) => pc = "idle" /\ todo = {}
        /\ result = Raise("ValueError", 80) =>
              /\ pc = "idle"
              /\ \E v \in dfVideos \ todo :
                    /\ Effect("ffmpeg", v, <<>>) \in effects
                    /\ FrameCount(frames, sDir(v)) # NFramesNorm
              /\ \A v \in todo : \A e \in effects : e.dir # v

C4_Witness ==
    /\ lastFn = "video2frames"
    /\ result = Raise("ValueError", 80)
    /\ todo # {}

\* C5: every feature file is split/label/video.npy of a frame directory
\* split/label/video holding exactly nFramesNorm frames, and has exactly
\* nFramesNorm rows, row i being the features of the i-th frame in ascending
\* file-name order; a frame directory with another number of frames is never
\* passed by the loop: the assertion (line 126) fails and it gets no file.
C5_FeatureShape ==
    /\ \A p \in DOMAIN features :
          \E d \in DOMAIN frames :
              /\ p = NpyOf(d)
              /\ dirname(p) \in featDirs
              /\ Cardinality(frames[d]) = NFramesNorm
              /\ DOMAIN features[p] = 1..NFramesNorm
              /\ {features[p][i][2] : i \in 1..NFramesNorm} = frames[d]
              /\ \A i \in 1..NFramesNorm : features[p][i][1] = "features"
              /\ \A i, j \in 1..NFramesNorm :
                    i < j => LexLess(features[p][i][2], features[p][j][2])
    /\ lastFn = "frames2features" =>
          /\ pc = "frames2features" =>
                \A d \in dfVideos \ todo : FrameCount(frames, d) = NFramesNorm
          /\ result = Raise("AssertionError", 126) =>
                /\ pc = "idle"
                /\ \E d \in dfVideos \ todo :
                      /\ FrameCount(frames, d) # NFramesNorm
                      /\ NpyOf(d) \notin DOMAIN features

C5_Witness ==
    /\ lastFn = "frames2features"
    /\ result = Raise("AssertionError", 126)
    /\ DOMAIN features # {}

\* C6: with nClasses given, both stages select exactly the videos whose label
\* is among the first nClasses of all distinct labels in ascending string
\* order, over all splits together, and with nClasses None every video; they
\* touch and create nothing for any other video, and on normal return have
\* processed every selected one.
C6_ClassRestriction ==
    /\ (lastFn = "video2frames" /\ result # Raise("ValueError", 39)) =>
          /\ dfVideos = FirstClasses(videos, nClasses)
          /\ \A e \in effects : e.dir \in dfVideos
          /\ \A d \in DOMAIN frames : \E v \in dfVideos : d = sDir(v)
          /\ result = Returned(87) =>
                \A v \in dfVideos :
                    Effect("ffmpeg", v, <<>>) \in effects /\ sDir(v) \in DOMAIN frames
    /\ (lastFn = "frames2features" /\ result.line \notin {94, 98}) =>
          /\ dfVideos = FirstClasses(DOMAIN frames, nClasses)
          /\ \A e \in effects : e.op # "chdir" => e.dir \in dfVideos
          /\ \A p \in DOMAIN features : \E d \in dfVideos : p = NpyOf(d)
          /\ \A fd \in featDirs : \E d \in dfVideos : fd = <<d[1], d[2]>>
          /\ result = Returned(147) =>
                \A d \in dfVideos : NpyOf(d) \in DOMAIN features

C6_Witness ==
    /\ lastFn = "frames2features"
    /\ result = Returned(147)
    /\ nClasses = <<1>>
    /\ dfVideos # {}
    /\ dfVideos # DOMAIN frames
    /\ \E d \in DOMAIN frames : NpyOf(d) \notin DOMAIN features

====
